---------------------------- MODULE Spec2Model ----------------------------
(* A state-machine model of NextjsDistribution (src/src/nextjs-distribution.ts): *)
(* the constructor runs its private methods one after the other; each method is  *)
(* one action.  Strings that the code inspects character by character (path      *)
(* patterns, entry names, the base path) are sequences of one-character strings. *)
EXTENDS Integers, Sequences, FiniteSets, TLC

VARIABLES props, pc, constructs, staticOrigin, dynamicOrigin,
          dynamicOriginResponsePolicy, dynamicCloudFrontFunctionAssociations,
          edgeLambdas, staticBehaviorOptions, dynamicBehaviorOptions,
          imageBehaviorOptions, distribution, behaviors, error

vars == <<props, pc, constructs, staticOrigin, dynamicOrigin,
          dynamicOriginResponsePolicy, dynamicCloudFrontFunctionAssociations,
          edgeLambdas, staticBehaviorOptions, dynamicBehaviorOptions,
          imageBehaviorOptions, distribution, behaviors, error>>

-----------------------------------------------------------------------------
(* Bounds of the explored inputs *)

\* longest publicDirEntries list explored
MaxEntries == 23
\* longest run of hand-picked (non-filler) entries inside a list
MaxSpecial == 2

-----------------------------------------------------------------------------
(* Values *)

\* a property that is absent (JavaScript undefined)
Undefined == "undefined"

Letters ==
  {"a","b","c","d","e","f","g","h","i","j","k","l","m","n","o","p","q","r","s",
   "t","u","v","w","x","y","z","A","B","C","D","E","F","G","H","I","J","K","L",
   "M","N","O","P","Q","R","S","T","U","V","W","X","Y","Z"}

Digits == {"0","1","2","3","4","5","6","7","8","9"}

\* the character class of the path pattern regular expression
PatternChars ==
  Letters \cup Digits \cup
  {"_", "-", ".", "*", "$", "/", "~", "\"", "'", "@", ":", "+", "?", "&"}

\* /^[a-zA-Z0-9_\-.*$/~"'@:+?&]+$/.test(s): one or more characters, all of the class
PathPatternRegExpTest(s) ==
  /\ Len(s) >= 1
  /\ \A i \in 1..Len(s) : s[i] \in PatternChars

ImagePattern  == <<"_","n","e","x","t","/","i","m","a","g","e","*">>
StaticPattern == <<"_","n","e","x","t","/","s","t","a","t","i","c","*">>
WildcardPattern == <<"*">>

\* the largest publicDirEntries length is one less than this
PublicEntriesLimit == 22


-----------------------------------------------------------------------------
(* Inputs: NextjsDistributionProps *)

\* PublicDirEntry values: a name and whether the entry is a directory
FileEntry(name) == [name |-> name, isDirectory |-> FALSE]
DirEntry(name)  == [name |-> name, isDirectory |-> TRUE]

DigitSeq == <<"0","1","2","3","4","5","6","7","8","9">>

RECURSIVE Decimal(_)
Decimal(i) ==
  IF i < 10 THEN <<DigitSeq[i + 1]>>
  ELSE Decimal(i \div 10) \o <<DigitSeq[(i % 10) + 1]>>

\* the i-th ordinary public file: f1, f2, ...
Filler(i) == FileEntry(<<"f">> \o Decimal(i))

\* fillers number lo..hi, in order
FillerRun(lo, hi) == [j \in 1..(hi - lo + 1) |-> Filler(lo + j - 1)]

\* hand-picked entries: a file, a directory, a file and a directory whose
\* patterns break the grammar, and a file named "*"
SpecialEntries ==
  { FileEntry(<<"a">>), DirEntry(<<"b">>), FileEntry(<<"c", "!">>),
    DirEntry(<<"d", " ", "e">>), FileEntry(<<"*">>) }

SpecialRuns == UNION { [1..m -> SpecialEntries] : m \in 0..MaxSpecial }

\* publicDirEntries lists: k fillers with a run of special entries after the i-th
EntryLists ==
  { FillerRun(1, t[2]) \o t[3] \o FillerRun(t[2] + 1, t[1]) :
      t \in { u \in (0..MaxEntries) \X (0..MaxEntries) \X SpecialRuns :
                /\ u[2] <= u[1]
                /\ u[1] + Len(u[3]) <= MaxEntries } }

SmallEntryLists == { <<>>, <<FileEntry(<<"a">>), DirEntry(<<"b">>)>> }

NoBasePath  == <<>>
AppBasePath == <<"a", "p", "p">>
BadBasePath == <<"m", "y", " ", "a", "p", "p">>

\* a ResponseHeadersPolicy: its construct id and the two properties looked at
NoPolicy == [id |-> Undefined, securityHeadersBehavior |-> Undefined,
             comment |-> Undefined]
UserPolicy == [id |-> "UserResponseHeadersPolicy",
               securityHeadersBehavior |-> "userSecurityHeadersBehavior",
               comment |-> "user policy"]

\* ResponseHeadersPolicyProps given as an override: every property optional
NoPolicyProps == [securityHeadersBehavior |-> Undefined, comment |-> Undefined]
CommentOnlyProps == [securityHeadersBehavior |-> Undefined,
                     comment |-> "user comment"]

\* AddBehaviorOptions given as an override: every property optional
NoBehaviorOptions == [cachePolicy |-> Undefined, originRequestPolicy |-> Undefined,
                      responseHeadersPolicy |-> NoPolicy]

NoHttpOriginProps == [protocolPolicy |-> Undefined]

NoOverrides ==
  [ staticBehaviorOptions |-> NoBehaviorOptions,
    staticResponseHeadersPolicyProps |-> NoPolicyProps,
    dynamicBehaviorOptions |-> NoBehaviorOptions,
    dynamicResponseHeadersPolicyProps |-> NoPolicyProps,
    imageBehaviorOptions |-> NoBehaviorOptions,
    imageResponseHeadersPolicyProps |-> NoPolicyProps,
    dynamicHttpOriginProps |-> NoHttpOriginProps ]

PolicyChoices == {NoPolicy, UserPolicy}
PropsChoices  == {NoPolicyProps, CommentOnlyProps}

\* overrides of the response headers policies only
HeaderOverrides ==
  { [ NoOverrides EXCEPT
        !.staticBehaviorOptions.responseHeadersPolicy = t[1],
        !.staticResponseHeadersPolicyProps = t[2],
        !.dynamicBehaviorOptions.responseHeadersPolicy = t[3],
        !.dynamicResponseHeadersPolicyProps = t[4],
        !.imageBehaviorOptions.responseHeadersPolicy = t[5],
        !.imageResponseHeadersPolicyProps = t[6] ] :
      t \in PolicyChoices \X PropsChoices \X PolicyChoices \X PropsChoices
            \X PolicyChoices \X PropsChoices }

\* overrides of the origin, the origin request policies and the cache policies
OriginOverrides ==
  { [ NoOverrides EXCEPT
        !.dynamicHttpOriginProps.protocolPolicy = t[1],
        !.dynamicBehaviorOptions.originRequestPolicy = t[2],
        !.imageBehaviorOptions.originRequestPolicy = t[3],
        !.dynamicBehaviorOptions.cachePolicy = t[4],
        !.imageBehaviorOptions.cachePolicy = t[5] ] :
      t \in {Undefined, "HTTP_ONLY", "HTTPS_ONLY"}
            \X {Undefined, "UserOriginRequestPolicy"}
            \X {Undefined, "UserOriginRequestPolicy"}
            \X {Undefined, "UserCachePolicy"}
            \X {Undefined, "UserCachePolicy"} }

NextjsTypes == {"GLOBAL_FUNCTIONS", "GLOBAL_CONTAINERS"}

\* many public entries, container compute, no overrides
EntryInputs ==
  [ basePath : {NoBasePath, AppBasePath},
    certificate : {FALSE},
    distribution : BOOLEAN,
    functionArn : {Undefined},
    nextjsType : {"GLOBAL_CONTAINERS"},
    overrides : {NoOverrides},
    publicDirEntries : EntryLists ]

\* few public entries, every compute type, overrides
OverrideInputs ==
  [ basePath : {NoBasePath, AppBasePath, BadBasePath},
    certificate : BOOLEAN,
    distribution : BOOLEAN,
    functionArn : {Undefined, "arn:aws:lambda:fn"},
    nextjsType : NextjsTypes,
    overrides : HeaderOverrides \cup OriginOverrides,
    publicDirEntries : SmallEntryLists ]

Inputs == EntryInputs \cup OverrideInputs

-----------------------------------------------------------------------------
(* State after `this.props = props` *)

UnsetOptions ==
  [ allowedMethods |-> Undefined, cachedMethods |-> Undefined,
    cachePolicy |-> Undefined, edgeLambdas |-> <<>>,
    functionAssociations |-> <<>>, origin |-> Undefined,
    originRequestPolicy |-> Undefined, responseHeadersPolicy |-> NoPolicy,
    viewerProtocolPolicy |-> Undefined ]

NoError == [kind |-> "none", pattern |-> <<>>]

Init ==
  /\ props \in Inputs
  /\ pc = "createStaticOrigin"
  /\ constructs = {}
  /\ staticOrigin = Undefined
  /\ dynamicOrigin = [id |-> Undefined, protocolPolicy |-> Undefined]
  /\ dynamicOriginResponsePolicy = Undefined
  /\ dynamicCloudFrontFunctionAssociations = <<>>
  /\ edgeLambdas = <<>>
  /\ staticBehaviorOptions = UnsetOptions
  /\ dynamicBehaviorOptions = UnsetOptions
  /\ imageBehaviorOptions = UnsetOptions
  /\ distribution = Undefined
  /\ behaviors = <<>>
  /\ error = NoError

-----------------------------------------------------------------------------
(* Helpers of the constructor's methods *)

\* this.isFunctionCompute
isFunctionCompute == props.nextjsType = "GLOBAL_FUNCTIONS"

\* { ...base, ...over } for ResponseHeadersPolicyProps: a property of `over`
\* that is present wins
SpreadPolicyProps(base, over) ==
  [ securityHeadersBehavior |->
      IF over.securityHeadersBehavior # Undefined
        THEN over.securityHeadersBehavior ELSE base.securityHeadersBehavior,
    comment |-> IF over.comment # Undefined THEN over.comment ELSE base.comment ]

\* { ...base, ...over } for behavior options
SpreadBehaviorOptions(base, over) ==
  [ base EXCEPT
      !.cachePolicy = IF over.cachePolicy # Undefined THEN over.cachePolicy ELSE @,
      !.originRequestPolicy =
          IF over.originRequestPolicy # Undefined THEN over.originRequestPolicy ELSE @,
      !.responseHeadersPolicy =
          IF over.responseHeadersPolicy # NoPolicy
            THEN over.responseHeadersPolicy ELSE @ ]

\* new ResponseHeadersPolicy(this, id, policyProps)
NewResponseHeadersPolicy(id, policyProps) ==
  [ id |-> id, securityHeadersBehavior |-> policyProps.securityHeadersBehavior,
    comment |-> policyProps.comment ]

commonSecurityHeadersBehavior == "commonSecurityHeadersBehavior"

\* the properties of a default response headers policy before any override
DefaultPolicyProps(comment) ==
  [ securityHeadersBehavior |-> commonSecurityHeadersBehavior, comment |-> comment ]

StaticDefaultComment  == "Nextjs Static Response Headers Policy"
DynamicDefaultComment == "Nextjs Dynamic Response Headers Policy"
ImageDefaultComment   == "Nextjs Image Response Headers Policy"

\* ProtocolPolicy with the certificate test left out
ProtocolPolicy_IgnoresCertificate ==
  IF isFunctionCompute THEN "HTTPS_ONLY" ELSE "HTTP_ONLY"

\* the protocolPolicy local of createDynamicOrigin
ProtocolPolicy ==
  IF isFunctionCompute THEN "HTTPS_ONLY"
  ELSE IF props.certificate THEN "HTTPS_ONLY" ELSE "HTTP_ONLY"

\* new HttpOrigin(domain, { protocolPolicy, ...dynamicHttpOriginProps })
NewDynamicOrigin ==
  [ id |-> "dynamicOrigin",
    protocolPolicy |->
      IF props.overrides.dynamicHttpOriginProps.protocolPolicy # Undefined
        THEN props.overrides.dynamicHttpOriginProps.protocolPolicy
        ELSE ProtocolPolicy ]

\* createDynamicOriginRequestPolicy's result
DynamicOriginRequestPolicy ==
  IF isFunctionCompute THEN "ALL_VIEWER_EXCEPT_HOST_HEADER" ELSE "ALL_VIEWER"

\* responseHeadersPolicy of createStaticBehaviorOptions
StaticResponseHeadersPolicy ==
  IF props.overrides.staticBehaviorOptions.responseHeadersPolicy # NoPolicy
    THEN props.overrides.staticBehaviorOptions.responseHeadersPolicy
    ELSE NewResponseHeadersPolicy("StaticResponseHeadersPolicy",
           SpreadPolicyProps(DefaultPolicyProps(StaticDefaultComment),
                             props.overrides.staticResponseHeadersPolicyProps))

\* what `...this.props.overrides?.dynamicBehaviorOptions?.responseHeadersPolicy`
\* spreads: the properties of the policy object given in the behavior options
DynamicSpreadPolicyProps ==
  [ securityHeadersBehavior |->
      props.overrides.dynamicBehaviorOptions.responseHeadersPolicy.securityHeadersBehavior,
    comment |-> props.overrides.dynamicBehaviorOptions.responseHeadersPolicy.comment ]

\* responseHeadersPolicy of createDynamicBehaviorOptions
DynamicResponseHeadersPolicy ==
  IF props.overrides.dynamicBehaviorOptions.responseHeadersPolicy # NoPolicy
    THEN props.overrides.dynamicBehaviorOptions.responseHeadersPolicy
    ELSE NewResponseHeadersPolicy("DynamicResponseHeadersPolicy",
           SpreadPolicyProps(DefaultPolicyProps(DynamicDefaultComment),
                             DynamicSpreadPolicyProps))

\* responseHeadersPolicy of createImageBehaviorOptions
ImageResponseHeadersPolicy ==
  IF props.overrides.imageBehaviorOptions.responseHeadersPolicy # NoPolicy
    THEN props.overrides.imageBehaviorOptions.responseHeadersPolicy
    ELSE NewResponseHeadersPolicy("ImageResponseHeadersPolicy",
           SpreadPolicyProps(DefaultPolicyProps(ImageDefaultComment),
                             props.overrides.imageResponseHeadersPolicyProps))

\* cachePolicy of createDynamicBehaviorOptions (a policy is its construct id)
DynamicCachePolicy ==
  IF props.overrides.dynamicBehaviorOptions.cachePolicy # Undefined
    THEN props.overrides.dynamicBehaviorOptions.cachePolicy
    ELSE "DynamicCachePolicy"

\* cachePolicy of createImageBehaviorOptions
ImageCachePolicy ==
  IF props.overrides.imageBehaviorOptions.cachePolicy # Undefined
    THEN props.overrides.imageBehaviorOptions.cachePolicy
    ELSE "ImageCachePolicy"

\* the constructs a method creates when it computes a default policy
CreatedIf(cond, id) == IF cond THEN {id} ELSE {}

\* getPathPattern: optionally prepends the base path
getPathPattern(pathPattern) ==
  IF props.basePath # <<>>
    THEN props.basePath \o <<"/">> \o pathPattern
    ELSE pathPattern

\* the pathPattern local of the loop of addStaticBehaviors
EntryPathPattern(publicFile) ==
  IF publicFile.isDirectory THEN publicFile.name \o <<"/", "*">>
  ELSE publicFile.name

\* one call this.distribution.addBehavior(pathPattern, origin, options), as the
\* entry it appends to the distribution's additional behaviors
Behavior(pathPattern, origin, options) ==
  [ pathPattern |-> pathPattern, origin |-> origin, options |-> options ]

TooManyError == [kind |-> "Too many public/ files in Next.js build", pattern |-> <<>>]
InvalidPatternError(pathPattern) ==
  [ kind |-> "Invalid CloudFront Distribution Cache Behavior Path Pattern",
    pattern |-> pathPattern ]
FunctionArnError == [kind |-> "functionArn is required", pattern |-> <<>>]

\* TooManyPublicEntries with > in place of >=
TooManyPublicEntries_OffByOne == Len(props.publicDirEntries) > PublicEntriesLimit

\* the guard of the count check of addStaticBehaviors
TooManyPublicEntries == Len(props.publicDirEntries) >= PublicEntriesLimit

\* StaticBehaviorsLoop that keeps validating after an invalid entry and throws
\* for the last one found
RECURSIVE StaticBehaviorsLoop_ReportsLast(_, _)
StaticBehaviorsLoop_ReportsLast(i, added) ==
  IF i > Len(props.publicDirEntries) THEN [behaviors |-> added, error |-> NoError]
  ELSE LET pathPattern == EntryPathPattern(props.publicDirEntries[i]) IN
       IF ~PathPatternRegExpTest(pathPattern)
         THEN LET rest == StaticBehaviorsLoop_ReportsLast(i + 1, added) IN
              [ behaviors |-> added,
                error |-> IF rest.error # NoError THEN rest.error
                          ELSE InvalidPatternError(pathPattern) ]
         ELSE StaticBehaviorsLoop_ReportsLast(i + 1,
                Append(added, Behavior(getPathPattern(pathPattern),
                                       staticOrigin, "staticBehaviorOptions")))

\* the for loop of addStaticBehaviors from entry i on: the behaviors added and
\* the error thrown, if any
RECURSIVE StaticBehaviorsLoop(_, _)
StaticBehaviorsLoop(i, added) ==
  IF i > Len(props.publicDirEntries) THEN [behaviors |-> added, error |-> NoError]
  ELSE LET pathPattern == EntryPathPattern(props.publicDirEntries[i]) IN
       IF ~PathPatternRegExpTest(pathPattern)
         THEN [behaviors |-> added, error |-> InvalidPatternError(pathPattern)]
         ELSE StaticBehaviorsLoop(i + 1,
                Append(added, Behavior(getPathPattern(pathPattern),
                                       staticOrigin, "staticBehaviorOptions")))

\* the pattern of the first addBehavior call of addStaticBehaviors
StaticAssetsPathPattern == StaticPattern

\* the calls of addStaticBehaviors up to its return or throw
StaticBehaviorsResult ==
  LET first == Append(behaviors, Behavior(StaticAssetsPathPattern, staticOrigin,
                                          "staticBehaviorOptions")) IN
  IF TooManyPublicEntries
    THEN [behaviors |-> first, error |-> TooManyError]
    ELSE StaticBehaviorsLoop(1, first)

\* DynamicBehaviorsResult with the wildcard rule added before the exact rule
DynamicBehaviorsResult_WildcardFirst ==
  LET image == Append(behaviors, Behavior(getPathPattern(ImagePattern),
                                          imageBehaviorOptions.origin,
                                          "imageBehaviorOptions")) IN
  IF props.basePath # <<>>
    THEN image \o
         << Behavior(getPathPattern(WildcardPattern), dynamicBehaviorOptions.origin,
                     "dynamicBehaviorOptions"),
            Behavior(props.basePath, dynamicBehaviorOptions.origin,
                     "dynamicBehaviorOptions") >>
    ELSE image

\* the calls of addDynamicBehaviors
DynamicBehaviorsResult ==
  LET image == Append(behaviors, Behavior(getPathPattern(ImagePattern),
                                          imageBehaviorOptions.origin,
                                          "imageBehaviorOptions")) IN
  IF props.basePath # <<>>
    THEN image \o
         << Behavior(props.basePath, dynamicBehaviorOptions.origin,
                     "dynamicBehaviorOptions"),
            Behavior(getPathPattern(WildcardPattern), dynamicBehaviorOptions.origin,
                     "dynamicBehaviorOptions") >>
    ELSE image

-----------------------------------------------------------------------------
(* The constructor, one action per method call *)

createStaticOrigin ==
  /\ pc = "createStaticOrigin"
  /\ staticOrigin' = "staticOrigin"
  /\ constructs' = constructs \cup {"staticOrigin"}
  /\ pc' = "createDynamicOrigin"
  /\ UNCHANGED <<props, dynamicOrigin, dynamicOriginResponsePolicy,
                 dynamicCloudFrontFunctionAssociations, edgeLambdas,
                 staticBehaviorOptions, dynamicBehaviorOptions,
                 imageBehaviorOptions, distribution, behaviors, error>>

createDynamicOrigin ==
  /\ pc = "createDynamicOrigin"
  /\ dynamicOrigin' = NewDynamicOrigin
  /\ constructs' = constructs \cup {"dynamicOrigin"}
  /\ pc' = "createDynamicOriginRequestPolicy"
  /\ UNCHANGED <<props, staticOrigin, dynamicOriginResponsePolicy,
                 dynamicCloudFrontFunctionAssociations, edgeLambdas,
                 staticBehaviorOptions, dynamicBehaviorOptions,
                 imageBehaviorOptions, distribution, behaviors, error>>

\* returns a managed policy: nothing is constructed
createDynamicOriginRequestPolicy ==
  /\ pc = "createDynamicOriginRequestPolicy"
  /\ dynamicOriginResponsePolicy' = DynamicOriginRequestPolicy
  /\ pc' = "createDynamicCloudFrontFunctionAssociations"
  /\ UNCHANGED <<props, constructs, staticOrigin, dynamicOrigin,
                 dynamicCloudFrontFunctionAssociations, edgeLambdas,
                 staticBehaviorOptions, dynamicBehaviorOptions,
                 imageBehaviorOptions, distribution, behaviors, error>>

createDynamicCloudFrontFunctionAssociations ==
  /\ pc = "createDynamicCloudFrontFunctionAssociations"
  /\ IF isFunctionCompute
       THEN /\ constructs' = constructs \cup {"CloudFrontFn"}
            /\ dynamicCloudFrontFunctionAssociations' =
                 <<"VIEWER_REQUEST:CloudFrontFn">>
       ELSE /\ constructs' = constructs
            /\ dynamicCloudFrontFunctionAssociations' = <<>>
  /\ pc' = "createEdgeLambdas"
  /\ UNCHANGED <<props, staticOrigin, dynamicOrigin, dynamicOriginResponsePolicy,
                 edgeLambdas, staticBehaviorOptions, dynamicBehaviorOptions,
                 imageBehaviorOptions, distribution, behaviors, error>>

\* if (this.isFunctionCompute) this.edgeLambdas = this.createEdgeLambdas()
createEdgeLambdas ==
  /\ pc = "createEdgeLambdas"
  /\ isFunctionCompute
  /\ IF props.functionArn = Undefined
       THEN /\ error' = FunctionArnError
            /\ pc' = "failed"
            /\ UNCHANGED <<constructs, edgeLambdas>>
       ELSE /\ constructs' = constructs \cup {"SignFnUrl"}
            /\ edgeLambdas' = <<"ORIGIN_REQUEST:SignFnUrl">>
            /\ pc' = "createStaticBehaviorOptions"
            /\ UNCHANGED error
  /\ UNCHANGED <<props, staticOrigin, dynamicOrigin, dynamicOriginResponsePolicy,
                 dynamicCloudFrontFunctionAssociations, staticBehaviorOptions,
                 dynamicBehaviorOptions, imageBehaviorOptions, distribution,
                 behaviors>>

\* the same `if`, not taken
skipEdgeLambdas ==
  /\ pc = "createEdgeLambdas"
  /\ ~isFunctionCompute
  /\ pc' = "createStaticBehaviorOptions"
  /\ UNCHANGED <<props, constructs, staticOrigin, dynamicOrigin,
                 dynamicOriginResponsePolicy,
                 dynamicCloudFrontFunctionAssociations, edgeLambdas,
                 staticBehaviorOptions, dynamicBehaviorOptions,
                 imageBehaviorOptions, distribution, behaviors, error>>

createStaticBehaviorOptions ==
  /\ pc = "createStaticBehaviorOptions"
  /\ constructs' = constructs \cup
       CreatedIf(props.overrides.staticBehaviorOptions.responseHeadersPolicy = NoPolicy,
                 "StaticResponseHeadersPolicy")
  /\ staticBehaviorOptions' =
       SpreadBehaviorOptions(
         [ allowedMethods |-> "ALLOW_GET_HEAD_OPTIONS",
           cachedMethods |-> "CACHE_GET_HEAD_OPTIONS",
           cachePolicy |-> "CACHING_OPTIMIZED",
           edgeLambdas |-> <<>>,
           functionAssociations |-> <<>>,
           origin |-> staticOrigin,
           originRequestPolicy |-> Undefined,
           responseHeadersPolicy |-> StaticResponseHeadersPolicy,
           viewerProtocolPolicy |-> "REDIRECT_TO_HTTPS" ],
         props.overrides.staticBehaviorOptions)
  /\ pc' = "createDynamicBehaviorOptions"
  /\ UNCHANGED <<props, staticOrigin, dynamicOrigin, dynamicOriginResponsePolicy,
                 dynamicCloudFrontFunctionAssociations, edgeLambdas,
                 dynamicBehaviorOptions, imageBehaviorOptions, distribution,
                 behaviors, error>>

createDynamicBehaviorOptions ==
  /\ pc = "createDynamicBehaviorOptions"
  /\ constructs' = constructs
       \cup CreatedIf(props.overrides.dynamicBehaviorOptions.cachePolicy = Undefined,
                      "DynamicCachePolicy")
       \cup CreatedIf(props.overrides.dynamicBehaviorOptions.responseHeadersPolicy = NoPolicy,
                      "DynamicResponseHeadersPolicy")
  /\ dynamicBehaviorOptions' =
       SpreadBehaviorOptions(
         [ allowedMethods |-> "ALLOW_ALL",
           cachedMethods |-> Undefined,
           cachePolicy |-> DynamicCachePolicy,
           edgeLambdas |-> edgeLambdas,
           functionAssociations |-> dynamicCloudFrontFunctionAssociations,
           origin |-> dynamicOrigin.id,
           originRequestPolicy |-> dynamicOriginResponsePolicy,
           responseHeadersPolicy |-> DynamicResponseHeadersPolicy,
           viewerProtocolPolicy |-> "REDIRECT_TO_HTTPS" ],
         props.overrides.dynamicBehaviorOptions)
  /\ pc' = "createImageBehaviorOptions"
  /\ UNCHANGED <<props, staticOrigin, dynamicOrigin, dynamicOriginResponsePolicy,
                 dynamicCloudFrontFunctionAssociations, edgeLambdas,
                 staticBehaviorOptions, imageBehaviorOptions, distribution,
                 behaviors, error>>

createImageBehaviorOptions ==
  /\ pc = "createImageBehaviorOptions"
  /\ constructs' = constructs
       \cup CreatedIf(props.overrides.imageBehaviorOptions.cachePolicy = Undefined,
                      "ImageCachePolicy")
       \cup CreatedIf(props.overrides.imageBehaviorOptions.responseHeadersPolicy = NoPolicy,
                      "ImageResponseHeadersPolicy")
  /\ imageBehaviorOptions' =
       SpreadBehaviorOptions(
         [ allowedMethods |-> "ALLOW_GET_HEAD_OPTIONS",
           cachedMethods |-> "CACHE_GET_HEAD_OPTIONS",
           cachePolicy |-> ImageCachePolicy,
           edgeLambdas |-> edgeLambdas,
           functionAssociations |-> dynamicCloudFrontFunctionAssociations,
           origin |-> dynamicOrigin.id,
           originRequestPolicy |-> dynamicOriginResponsePolicy,
           responseHeadersPolicy |-> ImageResponseHeadersPolicy,
           viewerProtocolPolicy |-> "REDIRECT_TO_HTTPS" ],
         props.overrides.imageBehaviorOptions)
  /\ pc' = "getDistribution"
  /\ UNCHANGED <<props, staticOrigin, dynamicOrigin, dynamicOriginResponsePolicy,
                 dynamicCloudFrontFunctionAssociations, edgeLambdas,
                 staticBehaviorOptions, dynamicBehaviorOptions, distribution,
                 behaviors, error>>

\* uses the caller's distribution or creates one whose default behavior is the
\* dynamic behavior
getDistribution ==
  /\ pc = "getDistribution"
  /\ IF props.distribution
       THEN /\ distribution' = "props.distribution"
            /\ constructs' = constructs
       ELSE /\ distribution' = "Distribution"
            /\ constructs' = constructs \cup {"Distribution"}
  /\ pc' = "addStaticBehaviors"
  /\ UNCHANGED <<props, staticOrigin, dynamicOrigin, dynamicOriginResponsePolicy,
                 dynamicCloudFrontFunctionAssociations, edgeLambdas,
                 staticBehaviorOptions, dynamicBehaviorOptions,
                 imageBehaviorOptions, behaviors, error>>

addStaticBehaviors ==
  /\ pc = "addStaticBehaviors"
  /\ behaviors' = StaticBehaviorsResult.behaviors
  /\ error' = StaticBehaviorsResult.error
  /\ pc' = IF StaticBehaviorsResult.error = NoError
             THEN "addDynamicBehaviors" ELSE "failed"
  /\ UNCHANGED <<props, constructs, staticOrigin, dynamicOrigin,
                 dynamicOriginResponsePolicy,
                 dynamicCloudFrontFunctionAssociations, edgeLambdas,
                 staticBehaviorOptions, dynamicBehaviorOptions,
                 imageBehaviorOptions, distribution>>

addDynamicBehaviors ==
  /\ pc = "addDynamicBehaviors"
  /\ behaviors' = DynamicBehaviorsResult
  /\ pc' = "CfnOutput"
  /\ UNCHANGED <<props, constructs, staticOrigin, dynamicOrigin,
                 dynamicOriginResponsePolicy,
                 dynamicCloudFrontFunctionAssociations, edgeLambdas,
                 staticBehaviorOptions, dynamicBehaviorOptions,
                 imageBehaviorOptions, distribution, error>>

\* new CfnOutput(this, "DistributionDomainName", ...): the constructor returns
CfnOutputDomainName ==
  /\ pc = "CfnOutput"
  /\ constructs' = constructs \cup {"DistributionDomainName"}
  /\ pc' = "done"
  /\ UNCHANGED <<props, staticOrigin, dynamicOrigin, dynamicOriginResponsePolicy,
                 dynamicCloudFrontFunctionAssociations, edgeLambdas,
                 staticBehaviorOptions, dynamicBehaviorOptions,
                 imageBehaviorOptions, distribution, behaviors, error>>

Next ==
  \/ createStaticOrigin
  \/ createDynamicOrigin
  \/ createDynamicOriginRequestPolicy
  \/ createDynamicCloudFrontFunctionAssociations
  \/ createEdgeLambdas
  \/ skipEdgeLambdas
  \/ createStaticBehaviorOptions
  \/ createDynamicBehaviorOptions
  \/ createImageBehaviorOptions
  \/ getDistribution
  \/ addStaticBehaviors
  \/ addDynamicBehaviors
  \/ CfnOutputDomainName

Spec == Init /\ [][Next]_vars

-----------------------------------------------------------------------------
(* Vocabulary of the properties *)

PathPatterns(bs) == [i \in DOMAIN bs |-> bs[i].pathPattern]
OptionsOf(bs) == [i \in DOMAIN bs |-> bs[i].options]

HasPrefix(s, p) == Len(s) >= Len(p) /\ SubSeq(s, 1, Len(p)) = p
HasSuffix(s, p) == Len(s) >= Len(p) /\ SubSeq(s, Len(s) - Len(p) + 1, Len(s)) = p

\* a pattern with the base path in front, as the specification words it
WithBasePath(pattern) ==
  IF props.basePath = <<>> THEN pattern ELSE props.basePath \o <<"/">> \o pattern

NumEntries == Len(props.publicDirEntries)
EntryPattern(i) ==
  IF props.publicDirEntries[i].isDirectory
    THEN props.publicDirEntries[i].name \o <<"/", "*">>
    ELSE props.publicDirEntries[i].name

\* the entries whose pattern breaks the grammar
InvalidEntries == { i \in 1..NumEntries : ~PathPatternRegExpTest(EntryPattern(i)) }
LowestInvalid == CHOOSE i \in InvalidEntries : \A j \in InvalidEntries : i <= j

Succeeded == pc = "done"
Failed == pc = "failed"
Finished == Succeeded \/ Failed
ValidationFailed == Failed /\ error # FunctionArnError

BasePathRulePatterns ==
  IF props.basePath = <<>> THEN <<>>
  ELSE <<props.basePath, props.basePath \o <<"/", "*">> >>

-----------------------------------------------------------------------------
(* C1 *)

\* C1 as stated: after a successful synthesis the patterns passed to addBehavior
\* are the image rule, the static rule, one rule per public entry in input
\* order, then the base path rules.
C1_ImageFirstOrder ==
  Succeeded =>
    PathPatterns(behaviors) =
      <<WithBasePath(ImagePattern), StaticPattern>>
        \o [i \in 1..NumEntries |-> WithBasePath(EntryPattern(i))]
        \o BasePathRulePatterns

\* C1 amended: after a successful synthesis the rules passed to addBehavior are,
\* in this order: the static rule _next/static*, one rule per public entry in
\* input order, the image rule _next/image*, then the exact base path rule and
\* the wildcard rule when a base path is set.
C1_EmissionOrder ==
  Succeeded =>
    /\ Len(behaviors) = NumEntries + 2 + Len(BasePathRulePatterns)
    /\ HasSuffix(behaviors[1].pathPattern, StaticPattern)
    /\ behaviors[1].options = "staticBehaviorOptions"
    /\ \A i \in 1..NumEntries :
         /\ behaviors[i + 1].pathPattern = WithBasePath(EntryPattern(i))
         /\ behaviors[i + 1].options = "staticBehaviorOptions"
    /\ behaviors[NumEntries + 2] =
         Behavior(WithBasePath(ImagePattern), "dynamicOrigin", "imageBehaviorOptions")
    /\ SubSeq(PathPatterns(behaviors), NumEntries + 3, Len(behaviors))
         = BasePathRulePatterns
    /\ \A i \in (NumEntries + 3)..Len(behaviors) :
         behaviors[i].options = "dynamicBehaviorOptions"

\* entries [a (file), b (directory)] without a base path give
\* _next/static*, a, b/*, _next/image*
C1_Witness ==
  /\ Succeeded
  /\ props.basePath = <<>>
  /\ props.publicDirEntries = <<FileEntry(<<"a">>), DirEntry(<<"b">>)>>
  /\ PathPatterns(behaviors) = <<StaticPattern, <<"a">>, <<"b", "/", "*">>, ImagePattern>>

-----------------------------------------------------------------------------
(* C2 *)

\* C2 as stated: with the required inputs present, synthesis of a list of n
\* public entries succeeds exactly when n < 22, and fails with the too-many
\* error from n = 22 on.
C2_SucceedsIffBelowLimit ==
  (Finished /\ error # FunctionArnError) =>
    /\ Succeeded <=> NumEntries < 22
    /\ NumEntries >= 22 => error = TooManyError

\* C2 amended: with the required inputs present, synthesis fails with the
\* too-many error exactly when n >= 22, and no validation error is raised
\* exactly when n < 22 and every entry's pattern matches the grammar.
C2_CountCeiling ==
  (Finished /\ error # FunctionArnError) =>
    /\ error = TooManyError <=> NumEntries >= 22
    /\ error = NoError <=> (NumEntries < 22 /\ InvalidEntries = {})

\* 22 grammar-valid entries are refused
C2_Witness ==
  /\ Failed
  /\ NumEntries = 22
  /\ InvalidEntries = {}
  /\ error = TooManyError

-----------------------------------------------------------------------------
(* C3 *)

RawPatterns ==
  {ImagePattern, StaticPattern} \cup { EntryPattern(i) : i \in 1..NumEntries }

\* C3: with a base path every pattern passed to addBehavior, except the exact
\* base path rule, is basePath/pattern; without one every pattern is unprefixed.
C3_EveryPatternPrefixed ==
  \A i \in DOMAIN behaviors :
    IF props.basePath # <<>>
      THEN \/ /\ behaviors[i].options = "dynamicBehaviorOptions"
              /\ behaviors[i].pathPattern = props.basePath
           \/ HasPrefix(behaviors[i].pathPattern, props.basePath \o <<"/">>)
      ELSE behaviors[i].pathPattern \in RawPatterns

-----------------------------------------------------------------------------
(* C4 *)

\* C4: every pattern passed to addBehavior matches the grammar, whatever the
\* base path and the entries; and (for a list the count rule admits) an entry
\* whose pattern breaks the grammar makes synthesis fail with the invalid
\* pattern error naming that entry's pattern.
C4_EveryPatternMatchesGrammar ==
  /\ \A i \in DOMAIN behaviors : PathPatternRegExpTest(behaviors[i].pathPattern)
  /\ (Finished /\ error # FunctionArnError /\ NumEntries < 22 /\ InvalidEntries # {}) =>
       /\ Failed
       /\ \E i \in InvalidEntries : error = InvalidPatternError(EntryPattern(i))

-----------------------------------------------------------------------------
(* C5 *)

\* C5: when synthesis fails with the too-many error or the invalid pattern
\* error, addBehavior has not been called and no distribution has been created.
C5_ValidationAllOrNothing ==
  ValidationFailed => (behaviors = <<>> /\ "Distribution" \notin constructs)

-----------------------------------------------------------------------------
(* C6 *)

\* the policy C6 expects: the policy of the behavior options verbatim, else
\* the default with the partial properties merged on top
ExpectedHeadersPolicy(given, id, defaultComment, partial) ==
  IF given # NoPolicy THEN given
  ELSE [ id |-> id,
         securityHeadersBehavior |->
           IF partial.securityHeadersBehavior # Undefined
             THEN partial.securityHeadersBehavior
             ELSE "commonSecurityHeadersBehavior",
         comment |-> IF partial.comment # Undefined THEN partial.comment
                     ELSE defaultComment ]

\* C6, for one behavior whose options have been created
HeadersPolicyResolved(options, given, id, defaultComment, partial) ==
  options # UnsetOptions =>
    /\ options.responseHeadersPolicy =
         ExpectedHeadersPolicy(given, id, defaultComment, partial)
    /\ given # NoPolicy => id \notin constructs

\* C6: for the static, the dynamic and the image behavior, a policy given in
\* the behavior options is used verbatim and the default is not constructed;
\* otherwise the policy is the default with that behavior's partial policy
\* properties merged on top.
C6_HeadersPolicyResolution ==
  /\ HeadersPolicyResolved(staticBehaviorOptions,
       props.overrides.staticBehaviorOptions.responseHeadersPolicy,
       "StaticResponseHeadersPolicy", "Nextjs Static Response Headers Policy",
       props.overrides.staticResponseHeadersPolicyProps)
  /\ HeadersPolicyResolved(dynamicBehaviorOptions,
       props.overrides.dynamicBehaviorOptions.responseHeadersPolicy,
       "DynamicResponseHeadersPolicy", "Nextjs Dynamic Response Headers Policy",
       props.overrides.dynamicResponseHeadersPolicyProps)
  /\ HeadersPolicyResolved(imageBehaviorOptions,
       props.overrides.imageBehaviorOptions.responseHeadersPolicy,
       "ImageResponseHeadersPolicy", "Nextjs Image Response Headers Policy",
       props.overrides.imageResponseHeadersPolicyProps)

-----------------------------------------------------------------------------
(* C7 *)

OriginCreated == dynamicOrigin.id # Undefined
DynamicAndImageOptionsCreated ==
  dynamicBehaviorOptions # UnsetOptions /\ imageBehaviorOptions # UnsetOptions

FunctionTopology == props.nextjsType = "GLOBAL_FUNCTIONS"

\* the protocol C7 names for each topology and certificate setting
TopologyProtocol ==
  IF FunctionTopology \/ props.certificate THEN "HTTPS_ONLY" ELSE "HTTP_ONLY"

\* the origin request policy C7 names for each topology
TopologyForwarding ==
  IF FunctionTopology THEN "ALL_VIEWER_EXCEPT_HOST_HEADER" ELSE "ALL_VIEWER"

\* C7 as stated: the topology (and the certificate) alone decide the dynamic
\* origin's protocol and the origin request policy of the dynamic and image
\* behaviors.
C7_TopologyDecidesPolicies ==
  /\ OriginCreated => dynamicOrigin.protocolPolicy = TopologyProtocol
  /\ (DynamicAndImageOptionsCreated /\ (FunctionTopology \/ ~props.certificate)) =>
       /\ dynamicBehaviorOptions.originRequestPolicy = TopologyForwarding
       /\ imageBehaviorOptions.originRequestPolicy = TopologyForwarding

\* C7 amended: unless dynamicHttpOriginProps overrides protocolPolicy, the
\* dynamic origin's protocol is HTTPS_ONLY for the function topology (any
\* certificate setting) and for a container topology with a certificate, and
\* HTTP_ONLY for a container topology without one; unless a behavior's options
\* override originRequestPolicy, the dynamic and the image behavior forward all
\* viewer data except Host for the function topology and all viewer data for a
\* container topology without a certificate.
C7_TopologyDefaults ==
  /\ (OriginCreated /\ props.overrides.dynamicHttpOriginProps.protocolPolicy = Undefined)
       => dynamicOrigin.protocolPolicy = TopologyProtocol
  /\ (DynamicAndImageOptionsCreated /\ (FunctionTopology \/ ~props.certificate)) =>
       /\ props.overrides.dynamicBehaviorOptions.originRequestPolicy = Undefined
            => dynamicBehaviorOptions.originRequestPolicy = TopologyForwarding
       /\ props.overrides.imageBehaviorOptions.originRequestPolicy = Undefined
            => imageBehaviorOptions.originRequestPolicy = TopologyForwarding

\* the function topology with a certificate: HTTPS_ONLY, Host not forwarded
C7_Witness ==
  /\ Succeeded
  /\ FunctionTopology
  /\ props.certificate
  /\ props.overrides = NoOverrides
  /\ dynamicOrigin.protocolPolicy = "HTTPS_ONLY"
  /\ dynamicBehaviorOptions.originRequestPolicy = "ALL_VIEWER_EXCEPT_HOST_HEADER"
  /\ imageBehaviorOptions.originRequestPolicy = "ALL_VIEWER_EXCEPT_HOST_HEADER"

-----------------------------------------------------------------------------
(* C8 *)

\* C8: with the function topology and no functionArn, synthesis fails with the
\* functionArn error, and when it is raised no origin, viewer-request function,
\* policy, distribution or routing rule has been constructed.
C8_FailsAtSynthesisStart ==
  /\ (Finished /\ FunctionTopology /\ props.functionArn = Undefined)
       => error = FunctionArnError
  /\ error = FunctionArnError =>
       /\ constructs = {}
       /\ staticOrigin = Undefined
       /\ ~OriginCreated
       /\ dynamicCloudFrontFunctionAssociations = <<>>
       /\ distribution = Undefined
       /\ behaviors = <<>>

-----------------------------------------------------------------------------
(* C9 *)

\* the entries that break a rule applied entry by entry: the grammar, or being
\* the 22nd entry or a later one
ViolatingEntries == InvalidEntries \cup { i \in 1..NumEntries : i >= 22 }
EarliestViolating == CHOOSE i \in ViolatingEntries : \A j \in ViolatingEntries : i <= j

\* C9 as stated: the error reported is the one of the earliest violating entry
\* in input order, whichever rule it breaks.
C9_EarliestViolationReported ==
  (ValidationFailed /\ ViolatingEntries # {}) =>
    error = IF EarliestViolating \in InvalidEntries
              THEN InvalidPatternError(EntryPattern(EarliestViolating))
              ELSE TooManyError

\* C9 amended: the count ceiling is checked once, on the whole list, before any
\* entry's pattern: a list of 22 or more entries fails with the too-many error
\* even when an earlier entry breaks the grammar; the grammar is then checked
\* entry by entry in input order, and a shorter list with grammar-invalid
\* entries fails naming the pattern of the lowest-indexed one.
C9_CountFirstThenLowestInvalid ==
  ValidationFailed =>
    IF NumEntries >= 22
      THEN error = TooManyError
      ELSE /\ InvalidEntries # {}
           /\ error = InvalidPatternError(EntryPattern(LowestInvalid))

\* two grammar-invalid entries with different patterns: the first is named
C9_Witness ==
  /\ Failed
  /\ NumEntries < 22
  /\ \E i, j \in InvalidEntries :
       /\ i < j
       /\ EntryPattern(i) # EntryPattern(j)
       /\ i = LowestInvalid
       /\ error = InvalidPatternError(EntryPattern(i))

-----------------------------------------------------------------------------
(* C10 *)

\* C10: after a successful synthesis the addBehavior calls plus the default
\* behavior number at most 25, with and without a base path.
C10_TotalRulesWithinCeiling ==
  Succeeded => Len(behaviors) + 1 <= 25

-----------------------------------------------------------------------------
(* C11 *)

\* entries as a directory listing gives them: no name twice
EntryNamesDistinct ==
  \A i, j \in 1..NumEntries :
    i # j => props.publicDirEntries[i].name # props.publicDirEntries[j].name

\* C11: after a successful synthesis the patterns passed to addBehavior are
\* pairwise distinct, whatever grammar-valid entries and base path were given.
\* Stated here for lists without a repeated name, the weaker half of the claim:
\* a violation of it is a violation of the claim.
C11_PatternsPairwiseDistinct ==
  (Succeeded /\ EntryNamesDistinct) =>
    \A i, j \in DOMAIN behaviors :
      i # j => behaviors[i].pathPattern # behaviors[j].pathPattern

=============================================================================
